---- MODULE Spec2Model ----
(***************************************************************************)
(* Chithi client core: the session transport (services/api.js, the axios   *)
(* response interceptor with its single-flight credential refresh) and the *)
(* chat hook (hooks/useChat.js).  Every action is one task of the          *)
(* JavaScript event loop: a handler together with the promise             *)
(* continuations (microtasks) it schedules, which run before any other     *)
(* response, event or timer is delivered.                                  *)
(***************************************************************************)
EXTENDS Integers, Sequences, FiniteSets, TLC

\* ------------------------------------------------------------- bounds ----
\* Requests issued through the api instance during one run.
MaxReq == 2
\* Access credentials the server issues in one run (the one stored at start
\* included).
MaxTok == 3

\* Contacts of the signed-in user.
MaxContact == 2
\* Messages the server creates in one run.
MaxMsg == 1
\* Times a contact is selected in one run.
MaxSelect == 2
\* Largest unread count of a contact-list entry.
MaxUnread == 2
\* Largest unread count the server reports in a contact list.
MaxServerUnread == 1
\* PDF thumbnail generations in flight at once.
MaxThumb == 1
\* Messages of the conversation on the screen when events are applied to it.
MaxHist == 2
\* Object URLs created and not revoked at once.
MaxUrl == 2

Reqs == 1..MaxReq
Tokens == 1..MaxTok
\* localStorage.getItem(...) === null
NoTok == 0

\* ======================================================================
\* Session transport (services/api.js)
\* ======================================================================
VARIABLES
    access,         \* localStorage "access": NoTok or a token
    refresh,        \* localStorage "refresh" is present
    isRefreshing,   \* module variable isRefreshing
    refreshQueue,   \* module variable refreshQueue: the waiters, in push order
    req,            \* per request: the config object and its caller's promise
    issued,         \* server: tokens 1..issued have been issued
    expired,        \* server: the tokens it answers 401 to
    refreshedToks,  \* history: the tokens issued by refresh calls
    refreshBy,      \* history: refresh calls started, per credential that the
                    \* 401-answered transmission carried
    loggedOut       \* history: logout ran (there is no login after it)

tvars == <<access, refresh, isRefreshing, refreshQueue, req, issued, expired,
           refreshedToks, refreshBy, loggedOut>>

\* Chat hook state (hooks/useChat.js)
VARIABLES
    selected,   \* selected?.id, NoContact for null
    messages,   \* the message list
    wsRef,      \* wsRef.current: the socket, the contact and the last
                \* timestamp of the message list its handlers closed over,
                \* the "open" listeners added to it; NoWs for null
    hs,         \* contact of the running effect's ws-token request in
                \* flight, NoContact when there is none
    stale,      \* the contacts with a ws-token request in flight whose
                \* effect run was cleaned up (cancelled = true)
    fetches,    \* conversation fetches in flight
    posts,      \* POST /api/chat/send/ responses in flight: the created messages
    log,        \* server: the messages created so far
    selects,    \* selections made so far
    dups,       \* history: a delivery found its id already in the message list
    discarded   \* history: the ws-token of a cleaned-up effect run arrived
                \* while another contact was selected

cvars == <<selected, messages, wsRef, hs, stale, fetches, posts, log,
           selects, dups, discarded>>

\* Chat hook state, continued: contact list, typing indicator, compose state
VARIABLES
    users,            \* the contact list: per contact, whether it has an
                      \* entry and the entry's unread count
    ufetches,         \* contact-list fetches in flight: for each, whether
                      \* the fetchUsers that made it closed over selected = null
    directory,        \* server: the contact list it answers with
    typing,           \* the typing indicator
    typingTimeoutRef, \* typingTimeoutRef.current is a timer that has not fired
    selectedFile,     \* the staged file: "none" for null, or its kind
    previewUrl,       \* the staged preview: "none" for null or its kind
    thumbs,           \* PDF thumbnail generations in flight
    deliveredAcksRef, \* the message ids a delivered frame was written for
    seen,             \* timestamp of the last message of the list the
                      \* running WebSocket effect closed over, 0 for none
    reacted,          \* history: <<message id, emoji, user>> for the users
                      \* whose latest reaction event was "added"
    wrote             \* what the step just taken wrote: frames on the
                      \* socket and HTTP send requests

hvars == <<users, ufetches, directory, typing, typingTimeoutRef, selectedFile,
           previewUrl, thumbs, deliveredAcksRef, seen, reacted, wrote>>

\* Chat hook state, continued: mounting, message editing, object URLs; the
\* avatar editor of the profile panel (pages/ProfilePanel.jsx)
VARIABLES
    mounted,          \* the page that uses the hook is mounted
    orphans,          \* sockets created and not closed that wsRef.current no
                      \* longer refers to
    editingMessageId, \* the id being edited, 0 for null
    editingText,      \* the draft of the edit
    previewId,        \* the object URL in previewUrl, 0 when it is not one
    showProfile,      \* the profile panel is mounted
    avatarPreview,    \* the object URL in avatarPreview, 0 when it is the
                      \* server's URL or null
    urls,             \* URL.createObjectURL results not yet revoked
    ackFrames,        \* history: the ids delivered frames were written for
    afterDrop,        \* history: "dropped" once a malformed frame was
                      \* dropped, "applied" once an event was applied after it
    failedRead,       \* history: a conversation or contact-list fetch failed
                      \* while messages were on the screen
    flushed,          \* history: an "open" listener has written its frame
    warned,           \* history: console.warn was called, an edit or a delete
                      \* having been attempted with the socket not open
    applied,          \* history: the snapshot of the active contact has
                      \* been applied since it became active
    owed              \* history: the newest timestamp of the non-empty
                      \* snapshot last applied for the active contact, 0
                      \* once a read frame carrying it has been written on
                      \* that contact's channel

lvars == <<mounted, orphans, editingMessageId, editingText, previewId,
           showProfile, avatarPreview, urls, ackFrames, afterDrop, failedRead,
           flushed, warned, applied, owed>>

vars == <<tvars, cvars, hvars, lvars>>

\* phase: idle       not yet issued
\*        sent       transmitted, the server has not answered
\*        answered   the response (status) is on its way to the interceptor
\*        queued     waiter in refreshQueue
\*        refreshing the interceptor awaits its refresh call (call at server)
\*        refreshed  the refresh response (rtok, NoTok = failure) is on its way
\*        done       the caller's promise is settled (out, err)
\* retry: config._retry;  auth: Authorization credential of the last
\* transmission;  first: that of the first one;  sends: transmissions so far;
\* first401: what the interceptor did with the 401 of the first transmission;
\* err: which error object the caller's promise was rejected with.
NewReq ==
    [phase |-> "idle", retry |-> FALSE, auth |-> NoTok, first |-> NoTok,
     sends |-> 0, status |-> 0, rtok |-> NoTok, out |-> "none",
     err |-> "none", first401 |-> "none"]

TInit ==
    /\ access = 1
    /\ refresh = TRUE
    /\ isRefreshing = FALSE
    /\ refreshQueue = <<>>
    /\ req = [r \in Reqs |-> NewReq]
    /\ issued = 1
    /\ expired = {}
    /\ refreshedToks = {}
    /\ refreshBy = [t \in 0..MaxTok |-> 0]
    /\ loggedOut = FALSE

\* api.interceptors.request.use: the stored credential, when there is one,
\* overwrites the Authorization header of the config.
RequestInterceptor(stored, hdr) == IF stored # NoTok THEN stored ELSE hdr

\* api(config): the request interceptor runs, the request is transmitted.
Transmit(rec, stored, hdr) ==
    LET a == RequestInterceptor(stored, hdr) IN
    [rec EXCEPT !.phase = "sent", !.auth = a,
                !.first = IF rec.sends = 0 THEN a ELSE rec.first,
                !.sends = rec.sends + 1, !.status = 0]

\* A caller issues a request through the api instance.
Issue(r) ==
    /\ req[r].phase = "idle"
    /\ req' = [req EXCEPT ![r] = Transmit(req[r], access, NoTok)]
    /\ UNCHANGED <<access, refresh, isRefreshing, refreshQueue, issued,
                   expired, refreshedToks, refreshBy>>
    /\ UNCHANGED loggedOut
    /\ UNCHANGED <<cvars, hvars, lvars>>

\* The server's verdict on a credential: 401 to a missing or expired one.
ServerStatus(a) == IF a = NoTok \/ a \in expired THEN 401 ELSE 200

\* The server answers a request; a request may also fail for another reason
\* (500), which the interceptor passes through.
ServerAnswer(r) ==
    /\ req[r].phase = "sent"
    /\ \E st \in {ServerStatus(req[r].auth), 500} :
          req' = [req EXCEPT ![r].phase = "answered", ![r].status = st]
    /\ UNCHANGED <<access, refresh, isRefreshing, refreshQueue, issued,
                   expired, refreshedToks, refreshBy>>
    /\ UNCHANGED loggedOut
    /\ UNCHANGED <<cvars, hvars, lvars>>

\* The caller's promise is settled.
Settle(rec, out, err) ==
    [rec EXCEPT !.phase = "done", !.out = out, !.err = err]

\* What the interceptor did with the 401 of a request's first transmission.
NoteFirst401(rec, what) ==
    [rec EXCEPT !.first401 = IF rec.sends = 1 THEN what ELSE rec.first401]

\* The flag not consulted: every 401 starts its own refresh call.
ShouldQueue_never == FALSE

\* if (isRefreshing): a refresh is under way, wait for it.
ShouldQueue == isRefreshing

\* A response reaches the response interceptor.
Receive(r) ==
    /\ req[r].phase = "answered"
    /\ IF req[r].status = 200
       THEN \* (response) => response
            /\ req' = [req EXCEPT ![r] = Settle(req[r], "ok", "none")]
            /\ UNCHANGED <<isRefreshing, refreshQueue, refreshBy>>
       ELSE IF req[r].status # 401 \/ req[r].retry
       THEN \* not an expiry, or already retried: the error as it is
            /\ req' = [req EXCEPT ![r] = Settle(req[r], "fail", "own")]
            /\ UNCHANGED <<isRefreshing, refreshQueue, refreshBy>>
       ELSE IF ~refresh
       THEN \* no refresh credential stored
            /\ req' = [req EXCEPT
                  ![r] = Settle(NoteFirst401(req[r], "norefresh"), "fail", "own")]
            /\ UNCHANGED <<isRefreshing, refreshQueue, refreshBy>>
       ELSE IF ShouldQueue
       THEN \* refreshQueue.push({ resolve, reject }); _retry is not set
            /\ req' = [req EXCEPT
                  ![r] = [NoteFirst401(req[r], "queued") EXCEPT !.phase = "queued"]]
            /\ refreshQueue' = Append(refreshQueue, r)
            /\ UNCHANGED <<isRefreshing, refreshBy>>
       ELSE \* original._retry = true; isRefreshing = true; axios.post(refresh)
            /\ req' = [req EXCEPT
                  ![r] = [NoteFirst401(req[r], "started") EXCEPT
                             !.phase = "refreshing", !.retry = TRUE]]
            /\ isRefreshing' = TRUE
            /\ refreshBy' = [refreshBy EXCEPT ![req[r].auth] = @ + 1]
            /\ UNCHANGED refreshQueue
    /\ UNCHANGED <<access, refresh, issued, expired, refreshedToks>>
    /\ UNCHANGED loggedOut
    /\ UNCHANGED <<cvars, hvars, lvars>>

\* The server handles a refresh call: it issues a new access credential, or
\* the call fails (refresh credential rejected, network).
ServerRefresh(r) ==
    /\ req[r].phase = "refreshing"
    /\ \/ /\ issued < MaxTok
          /\ issued' = issued + 1
          /\ refreshedToks' = refreshedToks \cup {issued + 1}
          /\ req' = [req EXCEPT ![r].phase = "refreshed", ![r].rtok = issued + 1]
       \/ /\ req' = [req EXCEPT ![r].phase = "refreshed", ![r].rtok = NoTok]
          /\ UNCHANGED <<issued, refreshedToks>>
    /\ UNCHANGED <<access, refresh, isRefreshing, refreshQueue, expired, refreshBy>>
    /\ UNCHANGED loggedOut
    /\ UNCHANGED <<cvars, hvars, lvars>>

Waiters == {refreshQueue[i] : i \in 1..Len(refreshQueue)}

\* The new credential not stored before the replays.
StoreAccess_forgotten(t) == access

\* localStorage.setItem("access", data.access)
StoreAccess(t) == t

\* resolveQueue(null, token): each waiter sets its header to the token and
\* calls api(original).
ResolveQueue(rq, stored, t) ==
    [q \in Reqs |-> IF q \in Waiters THEN Transmit(rq[q], stored, t) ELSE rq[q]]

\* The waiters left as they are.
RejectQueue_none(rq) == rq

\* resolveQueue(err): each waiter is rejected with the refresh call's error.
RejectQueue(rq) ==
    [q \in Reqs |-> IF q \in Waiters THEN Settle(rq[q], "fail", "refresh") ELSE rq[q]]

\* try: the refresh call succeeded.  The new credential is stored, the
\* waiters are resolved, the initiator replays (api(original) is returned,
\* not awaited), and finally clears the flag; the waiters' continuations,
\* microtasks, replay next.
RefreshSucceeded(r) ==
    /\ req[r].phase = "refreshed"
    /\ req[r].rtok # NoTok
    /\ LET t == req[r].rtok
           stored == StoreAccess(t)
           mine == [req EXCEPT ![r] = Transmit(req[r], stored, req[r].auth)]
       IN /\ access' = stored
          /\ req' = ResolveQueue(mine, stored, t)
    /\ refreshQueue' = <<>>
    /\ isRefreshing' = FALSE
    /\ UNCHANGED <<refresh, issued, expired, refreshedToks, refreshBy>>
    /\ UNCHANGED loggedOut
    /\ UNCHANGED <<cvars, hvars, lvars>>

\* Only the access credential removed.
ClearStore_keepsRefresh == [access |-> NoTok, refresh |-> refresh]

\* localStorage.removeItem("access"); localStorage.removeItem("refresh")
ClearStore == [access |-> NoTok, refresh |-> FALSE]

\* catch: the refresh call failed.  The waiters are rejected, both stored
\* credentials are removed, the initiator is rejected with the refresh
\* call's error, and finally clears the flag.
RefreshFailed(r) ==
    /\ req[r].phase = "refreshed"
    /\ req[r].rtok = NoTok
    /\ req' = [RejectQueue(req) EXCEPT ![r] = Settle(req[r], "fail", "refresh")]
    /\ refreshQueue' = <<>>
    /\ access' = ClearStore.access
    /\ refresh' = ClearStore.refresh
    /\ isRefreshing' = FALSE
    /\ UNCHANGED <<issued, expired, refreshedToks, refreshBy>>
    /\ UNCHANGED loggedOut
    /\ UNCHANGED <<cvars, hvars, lvars>>

\* The server stops accepting an access credential (its lifetime is over).
ServerExpire(t) ==
    /\ t \in 1..issued
    /\ t \notin expired
    /\ expired' = expired \cup {t}
    /\ UNCHANGED <<access, refresh, isRefreshing, refreshQueue, req, issued,
                   refreshedToks, refreshBy>>
    /\ UNCHANGED loggedOut
    /\ UNCHANGED <<cvars, hvars, lvars>>

\* AuthContext logout: both credentials are removed from the store.
Logout ==
    /\ access # NoTok \/ refresh
    /\ access' = NoTok
    /\ refresh' = FALSE
    /\ loggedOut' = TRUE
    /\ UNCHANGED <<isRefreshing, refreshQueue, req, issued, expired,
                   refreshedToks, refreshBy>>
    /\ UNCHANGED <<cvars, hvars, lvars>>

TNext ==
    \/ \E r \in Reqs : Issue(r)
    \/ \E r \in Reqs : ServerAnswer(r)
    \/ \E r \in Reqs : Receive(r)
    \/ \E r \in Reqs : ServerRefresh(r)
    \/ \E r \in Reqs : RefreshSucceeded(r)
    \/ \E r \in Reqs : RefreshFailed(r)
    \/ \E t \in Tokens : ServerExpire(t)
    \/ Logout


\* ======================================================================
\* Chat hook (hooks/useChat.js)
\*
\* An action is a handler together with the re-render it causes and the
\* effects React then runs: the WebSocket lifecycle effect (dependencies
\* selected?.id, user?.id, messages.length) and the fetchConversation
\* effect (dependency: the selected object).
\* ======================================================================
Contacts == 1..MaxContact
\* user.id of the signed-in user
Me == MaxContact + 1
\* useState(null): no contact selected
NoContact == 0

\* A frame written to the socket of contact c's channel (c = NoContact: an
\* HTTP request), with its payload.
Frame(t, a, c) == [type |-> t, arg |-> a, to |-> c]

NoWs == [contact |-> NoContact, state |-> "null", listeners |-> {}]
NoData == <<>>

\* "This message was deleted"
DeletedText == "deleted"

\* The server stamps a message when it creates it: ids and timestamps grow
\* together.
Msg(i, s, r) ==
    [id |-> i, sender |-> s, receiver |-> r, timestamp |-> i,
     content |-> "text", is_deleted |-> FALSE, read |-> FALSE,
     delivered |-> FALSE, attachment |-> "none", reactions |-> <<>>]

Ids(list) == {list[i].id : i \in 1..Len(list)}

\* messages.length ? messages[messages.length - 1].timestamp : nothing (0)
LastTs(list) == IF Len(list) = 0 THEN 0 ELSE list[Len(list)].timestamp

\* No entry in the contact list (existing.unread || 0 reads 0).
NoUser == [listed |-> FALSE, unread |-> 0]

\* Server: every contact in the list, nothing unread.
FullDirectory == [c \in Contacts |-> [listed |-> TRUE, unread |-> 0]]

\* The hook is mounted: the first render's effects have called fetchUsers
\* (selected is null: no conversation fetch, no socket).
CInit ==
    /\ selected = NoContact
    /\ messages = <<>>
    /\ wsRef = NoWs
    /\ hs = NoContact
    /\ stale = {}
    /\ fetches = {}
    /\ posts = {}
    /\ log = {}
    /\ selects = 0
    /\ dups = FALSE
    /\ discarded = FALSE
    /\ users = [c \in Contacts |-> NoUser]
    /\ ufetches = {TRUE}
    /\ directory = FullDirectory
    /\ typing = FALSE
    /\ typingTimeoutRef = FALSE
    /\ selectedFile = "none"
    /\ previewUrl = "none"
    /\ thumbs = 0
    /\ deliveredAcksRef = {}
    /\ seen = 0
    /\ reacted = {}
    /\ wrote = {}
    /\ applied = FALSE
    /\ owed = 0

\* Mounted, nothing being edited, no object URL made, the profile panel
\* closed.
LInit ==
    /\ mounted = TRUE
    /\ orphans = {}
    /\ editingMessageId = 0
    /\ editingText = ""
    /\ previewId = 0
    /\ showProfile = FALSE
    /\ avatarPreview = 0
    /\ urls = {}
    /\ ackFrames = {}
    /\ afterDrop = "none"
    /\ failedRead = FALSE
    /\ flushed = FALSE
    /\ warned = FALSE

\* The messages of a set, ordered by timestamp.
RECURSIVE Sorted(_)
Sorted(S) ==
    IF S = {} THEN <<>>
    ELSE LET m == CHOOSE x \in S : \A y \in S : x.timestamp <= y.timestamp
         IN <<m>> \o Sorted(S \ {m})

\* Server: the history of the conversation between the user and contact c.
Conversation(c) ==
    Sorted({m \in log : \/ m.sender = Me /\ m.receiver = c
                        \/ m.sender = c /\ m.receiver = Me})

\* The socket in wsRef.current neither closed nor forgotten.
WsEffect_keepsSocket(changed, sel) ==
    IF changed
    THEN [wsRef |-> wsRef,
          hs    |-> IF sel # NoContact /\ access # NoTok THEN sel ELSE NoContact,
          stale |-> IF hs # NoContact THEN stale \cup {hs} ELSE stale,
          timer |-> FALSE]
    ELSE [wsRef |-> wsRef, hs |-> hs, stale |-> stale, timer |-> typingTimeoutRef]

\* The WebSocket lifecycle effect, run when one of its dependencies changed:
\* the cleanup of the previous run sets its cancelled flag and clears the
\* typing timer (its ws.close() names a variable that is not in scope and
\* throws into the empty catch), then the effect closes wsRef.current, sets
\* it to null and, with a contact selected and an access credential stored,
\* requests a ws-token.
WsEffect(changed, sel) ==
    IF changed
    THEN [wsRef |-> NoWs,
          hs    |-> IF sel # NoContact /\ access # NoTok THEN sel ELSE NoContact,
          stale |-> IF hs # NoContact THEN stale \cup {hs} ELSE stale,
          timer |-> FALSE]
    ELSE [wsRef |-> wsRef, hs |-> hs, stale |-> stale, timer |-> typingTimeoutRef]

\* The effect run after a step that left the socket as ws, the typing timer
\* as timer and the message list as list (which the run closes over).
RunWsEffect(changed, sel, ws, timer, list) ==
    LET e == WsEffect(changed, sel) IN
    /\ wsRef' = IF changed THEN e.wsRef ELSE ws
    /\ hs' = e.hs
    /\ stale' = e.stale
    /\ typingTimeoutRef' = IF changed THEN e.timer ELSE timer
    /\ seen' = IF changed THEN LastTs(list) ELSE seen

\* fetchConversation is called: GET /api/chat/conversation/{selected.id}/.
\* since: the ids appended by message events after the call was made.
NewFetch(c) == [contact |-> c, stage |-> "req", data |-> NoData, since |-> {}]

\* The selection becomes c (setSelected with another object): the effects
\* that depend on it run.  fetchUsers and fetchConversation are called, the
\* WebSocket lifecycle effect runs when the id changed.
SelectionEffects(c, timer) ==
    /\ selects' = selects + 1
    /\ selected' = c
    /\ fetches' = fetches \cup {NewFetch(c)}
    /\ RunWsEffect(c # selected, c, wsRef, timer, messages)
    /\ applied' = (applied /\ c = selected)
    /\ owed' = IF c = selected THEN owed ELSE 0

\* Sidebar onClick: setSelected(u), u an entry of the contact list (a new
\* object even for the contact already selected).
Select(c) ==
    /\ mounted
    /\ selects < MaxSelect
    /\ users[c].listed
    /\ SelectionEffects(c, typingTimeoutRef)
    /\ ufetches' = ufetches \cup {FALSE}
    /\ wrote' = {}
    /\ UNCHANGED <<messages, posts, log, dups, discarded>>
    /\ UNCHANGED <<users, directory, typing, selectedFile, previewUrl, thumbs,
                   deliveredAcksRef, reacted>>
    /\ UNCHANGED tvars
    /\ UNCHANGED <<mounted, orphans, editingMessageId, editingText, previewId,
                   showProfile, avatarPreview, urls, ackFrames, afterDrop,
                   failedRead, flushed, warned>>

\* Server: the contact list changes (a contact added or removed, messages
\* counted unread or read).
ServerDirectory(d) ==
    /\ d # directory
    /\ directory' = d
    /\ wrote' = {}
    /\ UNCHANGED cvars
    /\ UNCHANGED <<users, ufetches, typing, typingTimeoutRef, selectedFile,
                   previewUrl, thumbs, deliveredAcksRef, seen, reacted>>
    /\ UNCHANGED tvars
    /\ UNCHANGED lvars

\* fetchUsers after its await: with the closed-over selected null, the
\* saved contact or else the first of the list is selected; the contact
\* list is replaced by the server's, unread as the server counts it.
FetchUsersResponse(auto) ==
    /\ mounted
    /\ auto \in ufetches
    /\ LET listed == {c \in Contacts : directory[c].listed} IN
       IF auto /\ listed # {}
       THEN /\ selects < MaxSelect
            /\ \E c \in listed : SelectionEffects(c, typingTimeoutRef)
            /\ ufetches' = (ufetches \ {auto}) \cup {FALSE}
       ELSE /\ ufetches' = ufetches \ {auto}
            /\ UNCHANGED <<selected, selects, fetches, wsRef, hs, stale,
                           typingTimeoutRef, seen, applied, owed>>
    /\ users' = [c \in Contacts |->
                    IF directory[c].listed THEN directory[c] ELSE NoUser]
    /\ wrote' = {}
    /\ UNCHANGED <<messages, posts, log, dups, discarded>>
    /\ UNCHANGED <<directory, typing, selectedFile, previewUrl, thumbs,
                   deliveredAcksRef, reacted>>
    /\ UNCHANGED tvars
    /\ UNCHANGED <<mounted, orphans, editingMessageId, editingText, previewId,
                   showProfile, avatarPreview, urls, ackFrames, afterDrop,
                   failedRead, flushed, warned>>

\* fetchUsers, catch: the fetch failed.
FetchUsersError(auto) ==
    /\ mounted
    /\ auto \in ufetches
    /\ ufetches' = ufetches \ {auto}
    /\ wrote' = {}
    /\ UNCHANGED cvars
    /\ UNCHANGED <<users, directory, typing, typingTimeoutRef, selectedFile,
                   previewUrl, thumbs, deliveredAcksRef, seen, reacted>>
    /\ UNCHANGED tvars
    /\ failedRead' = (failedRead \/ messages # <<>>)
    /\ UNCHANGED <<mounted, orphans, editingMessageId, editingText,
                   previewId, showProfile, avatarPreview, urls, ackFrames,
                   afterDrop, flushed,
                   warned, applied, owed>>

\* The cancelled flag not consulted.
TokenUsable_ignoresCancelled(wsToken, cancelled) == wsToken

\* if (!wsToken || cancelled) return
TokenUsable(wsToken, cancelled) == wsToken /\ ~cancelled

\* connect() after its await: with a usable token a WebSocket for the
\* contact the effect run closed over is created and stored in wsRef.
Connect(c, wsToken, cancelled) ==
    IF TokenUsable(wsToken, cancelled)
    THEN [contact |-> c, state |-> "connecting", listeners |-> {}]
    ELSE wsRef

\* wsRef.current = ws: a socket that was in wsRef.current and was not
\* closed is referred to no more.
Orphaned(old, new) ==
    IF new # old /\ old.state \in {"connecting", "open"}
    THEN orphans \cup {[contact |-> old.contact, state |-> old.state]}
    ELSE orphans

\* The ws-token response of the running effect arrives (or the call fails:
\* the catch logs it).
TokenResponse ==
    /\ hs # NoContact
    /\ \E wsToken \in BOOLEAN :
          wsRef' = Connect(hs, wsToken, FALSE)
    /\ hs' = NoContact
    /\ wrote' = {}
    /\ UNCHANGED <<selected, messages, stale, fetches, posts, log, selects, dups, discarded>>
    /\ UNCHANGED <<users, ufetches, directory, typing, typingTimeoutRef,
                   selectedFile, previewUrl, thumbs, deliveredAcksRef, seen, reacted>>
    /\ UNCHANGED tvars
    /\ orphans' = Orphaned(wsRef, wsRef')
    /\ UNCHANGED <<mounted, editingMessageId, editingText, previewId, showProfile,
                   avatarPreview, urls, ackFrames, afterDrop,
                   failedRead, flushed,
                   warned, applied, owed>>

\* The ws-token response of a cleaned-up effect run arrives.
StaleTokenResponse(c) ==
    /\ c \in stale
    /\ stale' = stale \ {c}
    /\ \E wsToken \in BOOLEAN :
          wsRef' = Connect(c, wsToken, TRUE)
    /\ discarded' = (discarded \/ c # selected)
    /\ wrote' = {}
    /\ UNCHANGED <<selected, messages, hs, fetches, posts, log, selects, dups>>
    /\ UNCHANGED <<users, ufetches, directory, typing, typingTimeoutRef,
                   selectedFile, previewUrl, thumbs, deliveredAcksRef, seen, reacted>>
    /\ UNCHANGED tvars
    /\ orphans' = Orphaned(wsRef, wsRef')
    /\ UNCHANGED <<mounted, editingMessageId, editingText, previewId, showProfile,
                   avatarPreview, urls, ackFrames, afterDrop,
                   failedRead, flushed,
                   warned, applied, owed>>

\* No "open" listener added: nothing is done unless the socket is open.
SendWhenWsReady_noQueue(ws, t, a) ==
    IF ws.state = "open" THEN [ws |-> ws, out |-> {Frame(t, a, ws.contact)}]
    ELSE [ws |-> ws, out |-> {}]

\* sendWhenWsReady(obj): nothing without a socket; written at once on an
\* open one; otherwise an "open" listener is added to the socket (and
\* removed after 3 s).
SendWhenWsReady(ws, t, a) ==
    IF ws.state = "null" THEN [ws |-> ws, out |-> {}]
    ELSE IF ws.state = "open" THEN [ws |-> ws, out |-> {Frame(t, a, ws.contact)}]
    ELSE [ws |-> [ws EXCEPT !.listeners = @ \cup {Frame(t, a, ws.contact)}],
          out |-> {}]

\* The socket opens: ws.onopen writes a read frame for the last message of
\* the list the effect run closed over, and the "open" listeners write
\* their frames.
WsOpen ==
    /\ wsRef.state = "connecting"
    /\ wsRef' = [wsRef EXCEPT !.state = "open", !.listeners = {}]
    /\ wrote' = (IF seen # 0 THEN {Frame("read", seen, wsRef.contact)} ELSE {})
                 \cup {Frame(f.type, f.arg, wsRef.contact) : f \in wsRef.listeners}
    /\ UNCHANGED <<selected, messages, hs, stale, fetches, posts, log, selects, dups, discarded>>
    /\ UNCHANGED <<users, ufetches, directory, typing, typingTimeoutRef,
                   selectedFile, previewUrl, thumbs, deliveredAcksRef, seen, reacted>>
    /\ UNCHANGED tvars
    /\ flushed' = (flushed \/ wsRef.listeners # {})
    /\ owed' = IF Frame("read", owed, selected) \in wrote' THEN 0 ELSE owed
    /\ UNCHANGED <<mounted, orphans, editingMessageId, editingText,
                   previewId, showProfile, avatarPreview, urls, ackFrames,
                   afterDrop, failedRead,
                   warned, applied>>

\* sendWhenWsReady's timer fires after 3 s: the listener is removed.
ListenerTimeout(f) ==
    /\ f \in wsRef.listeners
    /\ wsRef' = [wsRef EXCEPT !.listeners = @ \ {f}]
    /\ wrote' = {}
    /\ UNCHANGED <<selected, messages, hs, stale, fetches, posts, log, selects, dups, discarded>>
    /\ UNCHANGED <<users, ufetches, directory, typing, typingTimeoutRef,
                   selectedFile, previewUrl, thumbs, deliveredAcksRef, seen, reacted>>
    /\ UNCHANGED tvars
    /\ UNCHANGED lvars

\* Appended without looking for the id.
AppendDedup_noCheck(list, m) == Append(list, m)

\* prev.some((p) => p.id === msg.id) ? prev : [...prev, msg]
AppendDedup(list, m) ==
    IF \E i \in 1..Len(list) : list[i].id = m.id THEN list ELSE Append(list, m)

\* ws.onmessage, type "message": a message between the user and the
\* contact the handler closed over is appended unless its id is there.
BelongsTo(m, c) ==
    \/ m.sender = Me /\ m.receiver = c
    \/ m.sender = c /\ m.receiver = Me

\* msg.sender?.id === user?.id ? msg.receiver : msg.sender
Participant(m) == IF m.sender = Me THEN m.receiver ELSE m.sender

\* sidebar and message events: the participant's entry is created or
\* updated; unread is 0 for the active contact, else one more when the
\* sender is not the user.
Upsert(us, m, active) ==
    LET p == Participant(m) IN
    [us EXCEPT ![p] =
        [listed |-> TRUE,
         unread |-> IF active = p THEN 0
                    ELSE us[p].unread + (IF m.sender # Me THEN 1 ELSE 0)]]

\* undefined: the id read through ?. from a sender that is null
Undefined == -1

\* Also true of a sender without an id.
ClearsTyping_undefined(senderId, sel) == senderId = sel \/ senderId = Undefined

\* msg.sender?.id === selected?.id
ClearsTyping(senderId, sel) == senderId = sel

\* The acknowledged ids not looked at.
ShouldAck_always(m, c, acks) == BelongsTo(m, c) /\ m.receiver = Me

\* msg.receiver?.id === user?.id && msg.id && !deliveredAcksRef.current.has(msg.id),
\* inside the branch of the messages of this conversation
ShouldAck(m, c, acks) == BelongsTo(m, c) /\ m.receiver = Me /\ m.id \notin acks

\* The server pushes a message event; it may push any message again, in
\* any order.
WsMessage(m) ==
    /\ mounted
    /\ wsRef.state = "open"
    /\ m \in log
    /\ LET c == wsRef.contact
           next == IF BelongsTo(m, c) THEN AppendDedup(messages, m) ELSE messages
           fromActive == ClearsTyping(m.sender, c)
           ack == ShouldAck(m, c, deliveredAcksRef)
           timer == IF fromActive THEN FALSE ELSE typingTimeoutRef
       IN /\ Upsert(users, m, c)[Participant(m)].unread <= MaxUnread
          /\ typing' = IF fromActive THEN FALSE ELSE typing
          /\ users' = Upsert(users, m, c)
          /\ messages' = next
          /\ deliveredAcksRef' = IF ack THEN deliveredAcksRef \cup {m.id}
                                 ELSE deliveredAcksRef
          /\ wrote' = IF ack THEN {Frame("delivered", m.id, c)} ELSE {}
          /\ ackFrames' = IF ack THEN ackFrames \cup {m.id} ELSE ackFrames
          /\ dups' = (dups \/ (BelongsTo(m, c) /\ m.id \in Ids(messages)))
          /\ fetches' = {IF f.contact = c /\ Len(next) # Len(messages)
                         THEN [f EXCEPT !.since = @ \cup {m.id}] ELSE f
                         : f \in fetches}
          /\ RunWsEffect(Len(next) # Len(messages), selected, wsRef, timer, next)
    /\ UNCHANGED <<selected, posts, log, selects, discarded>>
    /\ UNCHANGED <<ufetches, directory, selectedFile, previewUrl, thumbs, reacted>>
    /\ UNCHANGED tvars
    /\ UNCHANGED <<mounted, orphans, editingMessageId, editingText, previewId,
                   showProfile, avatarPreview, urls, afterDrop,
                   failedRead, flushed,
                   warned, applied, owed>>

\* URL.createObjectURL: a URL that is not in use.
NewUrl(us) ==
    CHOOSE n \in 1..(Cardinality(us) + 1) :
        n \notin us /\ \A k \in 1..(n - 1) : k \in us

\* The cleanup of the effect that depends on previewUrl, run when
\* previewUrl changed: a blob: URL it closed over is revoked.
PreviewCleanup(us, old, new) == IF old # 0 /\ new # old THEN us \ {old} ELSE us

\* Server: a new message from s to r.
Created(s, r) == Msg(Cardinality(log) + 1, s, r)

\* A contact sends the user a message.
ContactSends(c) ==
    /\ Cardinality(log) < MaxMsg
    /\ log' = log \cup {Created(c, Me)}
    /\ wrote' = {}
    /\ UNCHANGED <<selected, messages, wsRef, hs, stale, fetches, posts, selects, dups, discarded>>
    /\ UNCHANGED <<users, ufetches, directory, typing, typingTimeoutRef,
                   selectedFile, previewUrl, thumbs, deliveredAcksRef, seen, reacted>>
    /\ UNCHANGED tvars
    /\ UNCHANGED lvars

\* The staged file not looked at: the socket is used whenever it is open.
ViaRest_ignoresFile(file, ws) == ws.state # "open"

\* send: with a file staged always sendViaRest; else the socket when it is
\* open, sendViaRest otherwise.
ViaRest(file, ws) == file # "none" \/ ws.state # "open"

\* send on the socket: the bare {content} frame; the typing indicator and
\* its timer are cleared.  The server creates the message for the contact
\* of that channel.
SendWs ==
    /\ mounted
    /\ wsRef.state = "open"
    /\ ~ViaRest(selectedFile, wsRef)
    /\ Cardinality(log) < MaxMsg
    /\ log' = log \cup {Created(Me, wsRef.contact)}
    /\ wrote' = {Frame("send", 0, wsRef.contact)}
    /\ typing' = FALSE
    /\ typingTimeoutRef' = FALSE
    /\ UNCHANGED <<selected, messages, wsRef, hs, stale, fetches, posts, selects, dups, discarded>>
    /\ UNCHANGED <<users, ufetches, directory, selectedFile, previewUrl, thumbs,
                   deliveredAcksRef, seen, reacted>>
    /\ UNCHANGED tvars
    /\ UNCHANGED lvars

\* send through sendViaRest, up to its await: a multipart request with the
\* staged file, a JSON post without; the server creates the message, and
\* the response carrying it is on its way.
SendRest ==
    /\ mounted
    /\ selected # NoContact
    /\ ViaRest(selectedFile, wsRef)
    /\ Cardinality(log) < MaxMsg
    /\ LET p == [Created(Me, selected) EXCEPT
                    !.attachment = IF selectedFile # "none" THEN "file" ELSE "none"]
       IN /\ log' = log \cup {p}
          /\ posts' = posts \cup {p}
    /\ wrote' = {Frame(IF selectedFile # "none" THEN "multipart" ELSE "post",
                     selected, NoContact)}
    /\ UNCHANGED <<selected, messages, wsRef, hs, stale, fetches, selects, dups, discarded>>
    /\ UNCHANGED <<users, ufetches, directory, typing, typingTimeoutRef,
                   selectedFile, previewUrl, thumbs, deliveredAcksRef, seen, reacted>>
    /\ UNCHANGED tvars
    /\ UNCHANGED lvars

\* sendViaRest after its await: the created message is appended unless its
\* id is there, the contact it was sent to goes to the front of the contact
\* list with unread 0, the staged attachment is removed (the removeAttachment
\* of the render that sent revokes the URL it closed over, which the preview
\* cleanup has revoked already if it was replaced since); back in send the
\* typing indicator and its timer are cleared.
PostResponse(p) ==
    /\ mounted
    /\ p \in posts
    /\ posts' = posts \ {p}
    /\ messages' = AppendDedup(messages, p)
    /\ dups' = (dups \/ p.id \in Ids(messages))
    /\ users' = [users EXCEPT ![p.receiver] = [listed |-> TRUE, unread |-> 0]]
    /\ selectedFile' = "none"
    /\ previewUrl' = "none"
    /\ previewId' = 0
    /\ urls' = PreviewCleanup(urls, previewId, 0)
    /\ typing' = FALSE
    /\ wrote' = {}
    /\ RunWsEffect(Len(messages') # Len(messages), selected, wsRef, FALSE, messages')
    /\ UNCHANGED <<selected, fetches, log, selects, discarded>>
    /\ UNCHANGED <<ufetches, directory, thumbs, deliveredAcksRef, reacted>>
    /\ UNCHANGED tvars
    /\ UNCHANGED <<mounted, orphans, editingMessageId, editingText, showProfile,
                   avatarPreview, ackFrames, afterDrop,
                   failedRead, flushed,
                   warned, applied, owed>>

\* sendViaRest, catch: the post failed; back in send the typing indicator
\* and its timer are cleared.
PostError(p) ==
    /\ mounted
    /\ p \in posts
    /\ posts' = posts \ {p}
    /\ typing' = FALSE
    /\ typingTimeoutRef' = FALSE
    /\ wrote' = {}
    /\ UNCHANGED <<selected, messages, wsRef, hs, stale, fetches, log, selects, dups, discarded>>
    /\ UNCHANGED <<users, ufetches, directory, selectedFile, previewUrl, thumbs,
                   deliveredAcksRef, seen, reacted>>
    /\ UNCHANGED tvars
    /\ UNCHANGED lvars

\* Server: the conversation fetch reads the history.
ServerSnapshot(f) ==
    /\ f \in fetches
    /\ f.stage = "req"
    /\ fetches' = (fetches \ {f}) \cup
                     {[f EXCEPT !.stage = "resp", !.data = Conversation(f.contact)]}
    /\ wrote' = {}
    /\ UNCHANGED <<selected, messages, wsRef, hs, stale, posts, log, selects, dups, discarded>>
    /\ UNCHANGED <<users, ufetches, directory, typing, typingTimeoutRef,
                   selectedFile, previewUrl, thumbs, deliveredAcksRef, seen, reacted>>
    /\ UNCHANGED tvars
    /\ UNCHANGED lvars

\* fetchConversation after its await: setMessages(data); with a non-empty
\* history a read frame for its last timestamp goes through
\* sendWhenWsReady; the unread count of the contact fetched for is zeroed.
SnapshotResponse(f) ==
    /\ mounted
    /\ f \in fetches
    /\ f.stage = "resp"
    /\ fetches' = fetches \ {f}
    /\ messages' = f.data
    /\ users' = [users EXCEPT ![f.contact].unread = 0]
    /\ LET r == IF Len(f.data) # 0
                THEN SendWhenWsReady(wsRef, "read", LastTs(f.data))
                ELSE [ws |-> wsRef, out |-> {}]
       IN /\ wrote' = r.out
          /\ RunWsEffect(Len(f.data) # Len(messages), selected, r.ws,
                         typingTimeoutRef, f.data)
          /\ applied' = (applied \/ f.contact = selected)
          /\ owed' = IF f.contact # selected \/ Len(f.data) = 0 THEN owed
                     ELSE IF Frame("read", LastTs(f.data), selected) \in r.out
                     THEN 0 ELSE LastTs(f.data)
    /\ UNCHANGED <<selected, posts, log, selects, dups, discarded>>
    /\ UNCHANGED <<ufetches, directory, typing, selectedFile, previewUrl, thumbs,
                   deliveredAcksRef, reacted>>
    /\ UNCHANGED tvars
    /\ UNCHANGED <<mounted, orphans, editingMessageId, editingText, previewId,
                   showProfile, avatarPreview, urls, ackFrames, afterDrop,
                   failedRead, flushed, warned>>

\* The message list emptied by the failure.
SnapshotError_clearsList(f) ==
    /\ mounted
    /\ f \in fetches
    /\ fetches' = fetches \ {f}
    /\ wrote' = {}
    /\ messages' = <<>>
    /\ UNCHANGED <<selected, wsRef, hs, stale, posts, log, selects, dups, discarded>>
    /\ UNCHANGED <<users, ufetches, directory, typing, typingTimeoutRef,
                   selectedFile, previewUrl, thumbs, deliveredAcksRef, seen, reacted>>
    /\ UNCHANGED tvars
    /\ failedRead' = (failedRead \/ messages # <<>>)
    /\ UNCHANGED <<mounted, orphans, editingMessageId, editingText,
                   previewId, showProfile, avatarPreview, urls, ackFrames,
                   afterDrop, flushed,
                   warned, applied, owed>>

\* fetchConversation, catch: the fetch failed.
SnapshotError(f) ==
    /\ mounted
    /\ f \in fetches
    /\ fetches' = fetches \ {f}
    /\ wrote' = {}
    /\ UNCHANGED <<selected, messages, wsRef, hs, stale, posts, log, selects, dups, discarded>>
    /\ UNCHANGED <<users, ufetches, directory, typing, typingTimeoutRef,
                   selectedFile, previewUrl, thumbs, deliveredAcksRef, seen, reacted>>
    /\ UNCHANGED tvars
    /\ failedRead' = (failedRead \/ messages # <<>>)
    /\ UNCHANGED <<mounted, orphans, editingMessageId, editingText,
                   previewId, showProfile, avatarPreview, urls, ackFrames,
                   afterDrop, flushed,
                   warned, applied, owed>>

\* ------------------------------------------------ ws.onmessage, the rest ----
\* The server pushes a sidebar event for a message.
WsSidebar(m) ==
    /\ mounted
    /\ wsRef.state = "open"
    /\ m \in log
    /\ Upsert(users, m, wsRef.contact)[Participant(m)].unread <= MaxUnread
    /\ users' = Upsert(users, m, wsRef.contact)
    /\ wrote' = {}
    /\ UNCHANGED cvars
    /\ UNCHANGED <<ufetches, directory, typing, typingTimeoutRef, selectedFile,
                   previewUrl, thumbs, deliveredAcksRef, seen, reacted>>
    /\ UNCHANGED tvars
    /\ UNCHANGED lvars

\* Everyone who can be named in an event.
Users == Contacts \cup {Me}

\* A typing event: from the contact the handler closed over (and not the
\* user), the indicator is set and its timer restarted.
WsTyping(u) ==
    /\ mounted
    /\ wsRef.state = "open"
    /\ IF u # Me /\ u = wsRef.contact
       THEN typing' = TRUE /\ typingTimeoutRef' = TRUE
       ELSE UNCHANGED <<typing, typingTimeoutRef>>
    /\ wrote' = {}
    /\ UNCHANGED cvars
    /\ UNCHANGED <<users, ufetches, directory, selectedFile, previewUrl, thumbs,
                   deliveredAcksRef, seen, reacted>>
    /\ UNCHANGED tvars
    /\ afterDrop' = IF afterDrop = "dropped" THEN "applied" ELSE afterDrop
    /\ UNCHANGED <<mounted, orphans, editingMessageId, editingText, previewId,
                   showProfile, avatarPreview, urls, ackFrames,
                   failedRead, flushed,
                   warned, applied, owed>>

\* setTimeout(() => setTyping(false), 1500) fires.
TypingTimeout ==
    /\ typingTimeoutRef
    /\ typing' = FALSE
    /\ typingTimeoutRef' = FALSE
    /\ wrote' = {}
    /\ UNCHANGED cvars
    /\ UNCHANGED <<users, ufetches, directory, selectedFile, previewUrl, thumbs,
                   deliveredAcksRef, seen, reacted>>
    /\ UNCHANGED tvars
    /\ UNCHANGED lvars

\* delivered: m.id === message_id ? { ...m, delivered: true } : m
MarkDelivered(list, id) ==
    LET f(m) == IF m.id = id THEN [m EXCEPT !.delivered = TRUE] ELSE m
    IN [i \in 1..Len(list) |-> f(list[i])]

\* A delivered event (user, message_id).
WsDelivered(u, id) ==
    /\ mounted
    /\ wsRef.state = "open"
    /\ messages' = IF u # Me THEN MarkDelivered(messages, id) ELSE messages
    /\ wrote' = {}
    /\ UNCHANGED <<selected, wsRef, hs, stale, fetches, posts, log, selects, dups, discarded>>
    /\ UNCHANGED <<users, ufetches, directory, typing, typingTimeoutRef,
                   selectedFile, previewUrl, thumbs, deliveredAcksRef, seen, reacted>>
    /\ UNCHANGED tvars
    /\ UNCHANGED lvars

\* The sender not looked at.
MarkRead_anySender(list, lr) ==
    LET f(m) == IF m.timestamp <= lr
                THEN [m EXCEPT !.read = TRUE, !.delivered = TRUE] ELSE m
    IN [i \in 1..Len(list) |-> f(list[i])]

\* read: the user's own messages up to last_read become read and delivered.
MarkRead(list, lr) ==
    LET f(m) == IF m.sender = Me /\ m.timestamp <= lr
                THEN [m EXCEPT !.read = TRUE, !.delivered = TRUE] ELSE m
    IN [i \in 1..Len(list) |-> f(list[i])]

\* A read event (user, last_read).
WsRead(u, lr) ==
    /\ mounted
    /\ wsRef.state = "open"
    /\ messages' = IF u # Me THEN MarkRead(messages, lr) ELSE messages
    /\ wrote' = {}
    /\ UNCHANGED <<selected, wsRef, hs, stale, fetches, posts, log, selects, dups, discarded>>
    /\ UNCHANGED <<users, ufetches, directory, typing, typingTimeoutRef,
                   selectedFile, previewUrl, thumbs, deliveredAcksRef, seen, reacted>>
    /\ UNCHANGED tvars
    /\ UNCHANGED lvars

\* { ...m, ...updated }: the fields of updated replace those of m.
Spread(m, updated) ==
    [k \in DOMAIN m \cup DOMAIN updated |->
        IF k \in DOMAIN updated THEN updated[k] ELSE m[k]]

\* message_updated: m.id === updated.id ? { ...m, ...updated } : m
MergeUpdated(list, updated) ==
    LET f(m) == IF m.id = updated.id THEN Spread(m, updated) ELSE m
    IN [i \in 1..Len(list) |-> f(list[i])]

\* Server: the payloads of message_updated events, the message as the
\* server serialises it after an edit.
Updates ==
    {[id |-> m.id, content |-> "edited", is_deleted |-> FALSE, read |-> r,
      delivered |-> dl, attachment |-> m.attachment] :
        m \in log, r \in BOOLEAN, dl \in BOOLEAN}

\* A message_updated event.
WsMessageUpdated(updated) ==
    /\ mounted
    /\ wsRef.state = "open"
    /\ updated \in Updates
    /\ messages' = MergeUpdated(messages, updated)
    /\ wrote' = {}
    /\ UNCHANGED <<selected, wsRef, hs, stale, fetches, posts, log, selects, dups, discarded>>
    /\ UNCHANGED <<users, ufetches, directory, typing, typingTimeoutRef,
                   selectedFile, previewUrl, thumbs, deliveredAcksRef, seen, reacted>>
    /\ UNCHANGED tvars
    /\ UNCHANGED lvars

\* message_deleted: placeholder content, is_deleted, attachment fields null
MarkDeleted(list, id) ==
    LET f(m) == IF m.id = id
                THEN [m EXCEPT !.content = DeletedText, !.is_deleted = TRUE,
                               !.attachment = "none"]
                ELSE m
    IN [i \in 1..Len(list) |-> f(list[i])]

\* A message_deleted event.
WsMessageDeleted(id) ==
    /\ mounted
    /\ wsRef.state = "open"
    /\ messages' = MarkDeleted(messages, id)
    /\ wrote' = {}
    /\ UNCHANGED <<selected, wsRef, hs, stale, fetches, posts, log, selects, dups, discarded>>
    /\ UNCHANGED <<users, ufetches, directory, typing, typingTimeoutRef,
                   selectedFile, previewUrl, thumbs, deliveredAcksRef, seen, reacted>>
    /\ UNCHANGED tvars
    /\ UNCHANGED lvars

\* ------------------------------------------------------------ reactions ----
Emojis == {"thumb", "heart"}

\* reactions.findIndex((r) => r.emoji === emoji), 0 for -1
FindIndex(reactions, emoji) ==
    IF \E i \in 1..Len(reactions) : reactions[i].emoji = emoji
    THEN CHOOSE i \in 1..Len(reactions) :
            /\ reactions[i].emoji = emoji
            /\ \A j \in 1..(i - 1) : reactions[j].emoji # emoji
    ELSE 0

\* new Set(entry.users): the first occurrence of each element, in order
RECURSIVE SetOf(_)
SetOf(arr) ==
    IF arr = <<>> THEN <<>>
    ELSE LET init == SetOf(SubSeq(arr, 1, Len(arr) - 1))
             x == arr[Len(arr)]
         IN IF \E i \in 1..Len(init) : init[i] = x THEN init ELSE Append(init, x)

\* Pushed without looking for the user.
SetAdd_push(s, u) == Append(s, u)

\* users.add(reactorId)
SetAdd(s, u) == IF \E i \in 1..Len(s) : s[i] = u THEN s ELSE Append(s, u)

\* The removal ignored.
SetDelete_ignored(s, u) == s

\* users.delete(reactorId)
SetDelete(s, u) == SelectSeq(s, LAMBDA x : x # u)

\* reactions.splice(idx, 1)
Splice(reactions, idx) ==
    SubSeq(reactions, 1, idx - 1) \o SubSeq(reactions, idx + 1, Len(reactions))

\* The reaction handler's update of one message's buckets.
React(reactions, emoji, reactorId, action) ==
    LET idx == FindIndex(reactions, emoji) IN
    IF idx = 0
    THEN IF action = "added"
         THEN Append(reactions, [emoji |-> emoji, count |-> 1, users |-> <<reactorId>>])
         ELSE reactions
    ELSE LET s0 == SetOf(reactions[idx].users)
             s1 == IF action = "added" THEN SetAdd(s0, reactorId) ELSE s0
             s2 == IF action = "removed" THEN SetDelete(s1, reactorId) ELSE s1
             entry == [reactions[idx] EXCEPT !.users = s2, !.count = Len(s2)]
         IN IF entry.count = 0
            THEN Splice(reactions, idx)
            ELSE [reactions EXCEPT ![idx] = entry]

\* reaction: m.id !== message_id ? m : { ...m, reactions }
ApplyReaction(list, id, emoji, reactorId, action) ==
    LET f(m) == IF m.id # id THEN m
                ELSE [m EXCEPT !.reactions = React(m.reactions, emoji, reactorId, action)]
    IN [i \in 1..Len(list) |-> f(list[i])]

\* A reaction event (message_id, emoji, user, action).  reacted: the users
\* whose latest reaction event on a message of the list and an emoji was
\* "added".
WsReaction(id, emoji, u, action) ==
    /\ mounted
    /\ wsRef.state = "open"
    /\ messages' = ApplyReaction(messages, id, emoji, u, action)
    /\ reacted' = IF id \notin Ids(messages) THEN reacted
                  ELSE IF action = "added" THEN reacted \cup {<<id, emoji, u>>}
                  ELSE IF action = "removed" THEN reacted \ {<<id, emoji, u>>}
                  ELSE reacted
    /\ wrote' = {}
    /\ UNCHANGED <<selected, wsRef, hs, stale, fetches, posts, log, selects, dups, discarded>>
    /\ UNCHANGED <<users, ufetches, directory, typing, typingTimeoutRef,
                   selectedFile, previewUrl, thumbs, deliveredAcksRef, seen>>
    /\ UNCHANGED tvars
    /\ UNCHANGED lvars

\* -------------------------------------------------------------- compose ----
\* handleFileChange: the file is staged; an image gets an object-URL
\* preview at once, a PDF a thumbnail generated asynchronously, any other
\* file no preview.
HandleFileChange(kind) ==
    /\ mounted
    /\ selectedFile' = kind
    /\ IF kind = "image"
       THEN /\ Cardinality(urls) < MaxUrl
            /\ previewUrl' = "blob"
            /\ previewId' = NewUrl(urls)
            /\ urls' = PreviewCleanup(urls \cup {NewUrl(urls)}, previewId, NewUrl(urls))
            /\ UNCHANGED thumbs
       ELSE IF kind = "pdf"
       THEN /\ thumbs < MaxThumb
            /\ thumbs' = thumbs + 1
            /\ UNCHANGED <<previewUrl, previewId, urls>>
       ELSE /\ previewUrl' = "none"
            /\ previewId' = 0
            /\ urls' = PreviewCleanup(urls, previewId, 0)
            /\ UNCHANGED thumbs
    /\ wrote' = {}
    /\ UNCHANGED cvars
    /\ UNCHANGED <<users, ufetches, directory, typing, typingTimeoutRef,
                   deliveredAcksRef, seen, reacted>>
    /\ UNCHANGED tvars
    /\ UNCHANGED <<mounted, orphans, editingMessageId, editingText, showProfile,
                   avatarPreview, ackFrames, afterDrop,
                   failedRead, flushed,
                   warned, applied, owed>>

\* handleFileChange after its await: setPreviewUrl(thumb), a data URL, or
\* null when the thumbnail could not be made.
ThumbnailDone(thumb) ==
    /\ mounted
    /\ thumbs > 0
    /\ thumbs' = thumbs - 1
    /\ previewUrl' = thumb
    /\ previewId' = 0
    /\ urls' = PreviewCleanup(urls, previewId, 0)
    /\ wrote' = {}
    /\ UNCHANGED cvars
    /\ UNCHANGED <<users, ufetches, directory, typing, typingTimeoutRef,
                   selectedFile, deliveredAcksRef, seen, reacted>>
    /\ UNCHANGED tvars
    /\ UNCHANGED <<mounted, orphans, editingMessageId, editingText, showProfile,
                   avatarPreview, ackFrames, afterDrop,
                   failedRead, flushed,
                   warned, applied, owed>>

\* removeAttachment: a blob: previewUrl is revoked; setSelectedFile(null);
\* setPreviewUrl(null)
RemoveAttachment ==
    /\ mounted
    /\ selectedFile # "none" \/ previewUrl # "none"
    /\ selectedFile' = "none"
    /\ previewUrl' = "none"
    /\ previewId' = 0
    /\ urls' = PreviewCleanup(urls \ {previewId}, previewId, 0)
    /\ wrote' = {}
    /\ UNCHANGED cvars
    /\ UNCHANGED <<users, ufetches, directory, typing, typingTimeoutRef, thumbs,
                   deliveredAcksRef, seen, reacted>>
    /\ UNCHANGED tvars
    /\ UNCHANGED <<mounted, orphans, editingMessageId, editingText, showProfile,
                   avatarPreview, ackFrames, afterDrop,
                   failedRead, flushed,
                   warned, applied, owed>>

\* ------------------------------------------------------------ unmount ----
\* The page unmounts: the cleanups of the effects run.  That of the
\* WebSocket lifecycle effect sets cancelled, clears the typing timer and
\* calls close() on a name that is not in scope (the catch swallows the
\* ReferenceError): the socket in wsRef.current is left as it is.  That of
\* the preview effect revokes a blob: previewUrl.  The profile panel, when
\* open, goes with the page; it has no cleanup.
Unmount ==
    /\ mounted
    /\ mounted' = FALSE
    /\ stale' = IF hs # NoContact THEN stale \cup {hs} ELSE stale
    /\ hs' = NoContact
    /\ typingTimeoutRef' = FALSE
    /\ urls' = urls \ {previewId}
    /\ previewId' = 0
    /\ showProfile' = FALSE
    /\ avatarPreview' = 0
    /\ wrote' = {}
    /\ UNCHANGED <<selected, messages, wsRef, fetches, posts, log, selects,
                   dups, discarded>>
    /\ UNCHANGED <<users, ufetches, directory, typing, selectedFile,
                   previewUrl, thumbs, deliveredAcksRef, seen, reacted>>
    /\ UNCHANGED <<orphans, editingMessageId, editingText, ackFrames,
                   afterDrop, failedRead, flushed,
                   warned, applied, owed>>
    /\ UNCHANGED tvars

\* --------------------------------------------------- malformed frames ----
\* A frame that is not applied: text that JSON.parse rejects, or a sidebar
\* or message event whose participant is null, on which normalizeUser
\* throws; the sender is the user (the receiver is null) or null itself.
\* The catch logs the error.  The message branch looks at the typing
\* indicator before it calls normalizeUser.
WsMalformed(kind, senderId) ==
    /\ mounted
    /\ wsRef.state = "open"
    /\ IF kind = "message" /\ ClearsTyping(senderId, wsRef.contact)
       THEN typing' = FALSE /\ typingTimeoutRef' = FALSE
       ELSE UNCHANGED <<typing, typingTimeoutRef>>
    /\ afterDrop' = "dropped"
    /\ wrote' = {}
    /\ UNCHANGED <<selected, messages, wsRef, hs, stale, fetches, posts, log,
                   selects, dups, discarded>>
    /\ UNCHANGED <<users, ufetches, directory, selectedFile, previewUrl,
                   thumbs, deliveredAcksRef, seen, reacted>>
    /\ UNCHANGED <<mounted, orphans, editingMessageId, editingText,
                   previewId, showProfile, avatarPreview, urls, ackFrames,
                   failedRead, flushed,
                   warned, applied, owed>>
    /\ UNCHANGED tvars

\* ------------------------------------------------- editing, deleting ----
\* The message menu offers Edit and Delete on the user's own messages that
\* are not deleted.
Editable(id) ==
    \E i \in 1..Len(messages) :
        messages[i].id = id /\ messages[i].sender = Me /\ ~messages[i].is_deleted

\* msg.content === "This message was deleted" ? "" : msg.content || ""
DraftOf(id) ==
    LET m == CHOOSE x \in {messages[i] : i \in 1..Len(messages)} : x.id = id
    IN IF m.content = DeletedText THEN "" ELSE m.content

\* startEdit(msg)
StartEdit(id) ==
    /\ mounted
    /\ Editable(id)
    /\ editingMessageId' = id
    /\ editingText' = DraftOf(id)
    /\ wrote' = {}
    /\ UNCHANGED <<selected, messages, wsRef, hs, stale, fetches, posts, log,
                   selects, dups, discarded>>
    /\ UNCHANGED <<users, ufetches, directory, typing, typingTimeoutRef,
                   selectedFile, previewUrl, thumbs, deliveredAcksRef, seen,
                   reacted>>
    /\ UNCHANGED <<mounted, orphans, previewId, showProfile, avatarPreview,
                   urls, ackFrames, afterDrop, failedRead, flushed,
                   warned, applied, owed>>
    /\ UNCHANGED tvars

\* The edit box's onChange: setEditingText; "" stands for a text that trims
\* to nothing.
SetEditingText(t) ==
    /\ mounted
    /\ editingMessageId # 0
    /\ editingText' = t
    /\ wrote' = {}
    /\ UNCHANGED <<selected, messages, wsRef, hs, stale, fetches, posts, log,
                   selects, dups, discarded>>
    /\ UNCHANGED <<users, ufetches, directory, typing, typingTimeoutRef,
                   selectedFile, previewUrl, thumbs, deliveredAcksRef, seen,
                   reacted>>
    /\ UNCHANGED <<mounted, orphans, editingMessageId, previewId,
                   showProfile, avatarPreview, urls, ackFrames, afterDrop,
                   failedRead, flushed,
                   warned, applied, owed>>
    /\ UNCHANGED tvars

\* cancelEdit
CancelEdit ==
    /\ mounted
    /\ editingMessageId # 0
    /\ editingMessageId' = 0
    /\ editingText' = ""
    /\ wrote' = {}
    /\ UNCHANGED <<selected, messages, wsRef, hs, stale, fetches, posts, log,
                   selects, dups, discarded>>
    /\ UNCHANGED <<users, ufetches, directory, typing, typingTimeoutRef,
                   selectedFile, previewUrl, thumbs, deliveredAcksRef, seen,
                   reacted>>
    /\ UNCHANGED <<mounted, orphans, previewId, showProfile, avatarPreview,
                   urls, ackFrames, afterDrop, failedRead, flushed,
                   warned, applied, owed>>
    /\ UNCHANGED tvars

\* submitEdit: nothing for a text that trims to nothing; else the edit
\* frame is written when the socket is open (a warning is logged when it is
\* not), and cancelEdit() is called either way.
SubmitEdit ==
    /\ mounted
    /\ editingMessageId # 0
    /\ IF editingText = ""
       THEN /\ wrote' = {}
            /\ UNCHANGED <<editingMessageId, editingText, warned>>
       ELSE /\ wrote' = IF wsRef.state = "open"
                        THEN {Frame("edit", editingMessageId, wsRef.contact)}
                        ELSE {}
            /\ warned' = (warned \/ wsRef.state # "open")
            /\ editingMessageId' = 0
            /\ editingText' = ""
    /\ UNCHANGED <<selected, messages, wsRef, hs, stale, fetches, posts, log,
                   selects, dups, discarded>>
    /\ UNCHANGED <<users, ufetches, directory, typing, typingTimeoutRef,
                   selectedFile, previewUrl, thumbs, deliveredAcksRef, seen,
                   reacted>>
    /\ UNCHANGED <<mounted, orphans, previewId, showProfile, avatarPreview,
                   urls, ackFrames, afterDrop, failedRead, flushed, applied,
                   owed>>
    /\ UNCHANGED tvars

\* deleteMessage(messageId): the delete frame is written when the socket is
\* open; a warning is logged when it is not.
DeleteMessage(id) ==
    /\ mounted
    /\ Editable(id)
    /\ wrote' = IF wsRef.state = "open"
                THEN {Frame("delete", id, wsRef.contact)}
                ELSE {}
    /\ warned' = (warned \/ wsRef.state # "open")
    /\ UNCHANGED <<selected, messages, wsRef, hs, stale, fetches, posts, log,
                   selects, dups, discarded>>
    /\ UNCHANGED <<users, ufetches, directory, typing, typingTimeoutRef,
                   selectedFile, previewUrl, thumbs, deliveredAcksRef, seen,
                   reacted>>
    /\ UNCHANGED <<mounted, orphans, editingMessageId, editingText,
                   previewId, showProfile, avatarPreview, urls, ackFrames,
                   afterDrop, failedRead, flushed, applied, owed>>
    /\ UNCHANGED tvars

\* ------------------------------------------------------ profile panel ----
\* The sidebar shows the profile panel: useState(profile.avatar_url || null).
OpenProfile ==
    /\ mounted
    /\ ~showProfile
    /\ showProfile' = TRUE
    /\ avatarPreview' = 0
    /\ wrote' = {}
    /\ UNCHANGED <<selected, messages, wsRef, hs, stale, fetches, posts, log,
                   selects, dups, discarded>>
    /\ UNCHANGED <<users, ufetches, directory, typing, typingTimeoutRef,
                   selectedFile, previewUrl, thumbs, deliveredAcksRef, seen,
                   reacted>>
    /\ UNCHANGED <<mounted, orphans, editingMessageId, editingText,
                   previewId, urls, ackFrames, afterDrop, failedRead,
                   flushed,
                   warned, applied, owed>>
    /\ UNCHANGED tvars

\* handleAvatarChange: a blob: avatarPreview is revoked, then an object URL
\* is made for the chosen file.
HandleAvatarChange ==
    /\ mounted
    /\ showProfile
    /\ Cardinality(urls \ {avatarPreview}) < MaxUrl
    /\ avatarPreview' = NewUrl(urls \ {avatarPreview})
    /\ urls' = (urls \ {avatarPreview}) \cup {NewUrl(urls \ {avatarPreview})}
    /\ wrote' = {}
    /\ UNCHANGED <<selected, messages, wsRef, hs, stale, fetches, posts, log,
                   selects, dups, discarded>>
    /\ UNCHANGED <<users, ufetches, directory, typing, typingTimeoutRef,
                   selectedFile, previewUrl, thumbs, deliveredAcksRef, seen,
                   reacted>>
    /\ UNCHANGED <<mounted, orphans, editingMessageId, editingText,
                   previewId, showProfile, ackFrames, afterDrop, failedRead,
                   flushed,
                   warned, applied, owed>>
    /\ UNCHANGED tvars

\* cancelAvatarSelection: a blob: avatarPreview is revoked; the preview goes
\* back to the server's URL.
CancelAvatarSelection ==
    /\ mounted
    /\ showProfile
    /\ urls' = urls \ {avatarPreview}
    /\ avatarPreview' = 0
    /\ wrote' = {}
    /\ UNCHANGED <<selected, messages, wsRef, hs, stale, fetches, posts, log,
                   selects, dups, discarded>>
    /\ UNCHANGED <<users, ufetches, directory, typing, typingTimeoutRef,
                   selectedFile, previewUrl, thumbs, deliveredAcksRef, seen,
                   reacted>>
    /\ UNCHANGED <<mounted, orphans, editingMessageId, editingText,
                   previewId, showProfile, ackFrames, afterDrop, failedRead,
                   flushed,
                   warned, applied, owed>>
    /\ UNCHANGED tvars

\* The effect that keeps the panel in sync with the user of the context
\* (updateProfile succeeded, the avatar was saved): setAvatarPreview(
\* profile.avatar_url || null), setAvatarFile(null).
ProfileSync ==
    /\ mounted
    /\ showProfile
    /\ avatarPreview' = 0
    /\ wrote' = {}
    /\ UNCHANGED <<selected, messages, wsRef, hs, stale, fetches, posts, log,
                   selects, dups, discarded>>
    /\ UNCHANGED <<users, ufetches, directory, typing, typingTimeoutRef,
                   selectedFile, previewUrl, thumbs, deliveredAcksRef, seen,
                   reacted>>
    /\ UNCHANGED <<mounted, orphans, editingMessageId, editingText,
                   previewId, showProfile, urls, ackFrames, afterDrop,
                   failedRead, flushed,
                   warned, applied, owed>>
    /\ UNCHANGED tvars

\* onClose: setShowProfile(false), the panel unmounts.
CloseProfile ==
    /\ mounted
    /\ showProfile
    /\ showProfile' = FALSE
    /\ avatarPreview' = 0
    /\ wrote' = {}
    /\ UNCHANGED <<selected, messages, wsRef, hs, stale, fetches, posts, log,
                   selects, dups, discarded>>
    /\ UNCHANGED <<users, ufetches, directory, typing, typingTimeoutRef,
                   selectedFile, previewUrl, thumbs, deliveredAcksRef, seen,
                   reacted>>
    /\ UNCHANGED <<mounted, orphans, editingMessageId, editingText,
                   previewId, urls, ackFrames, afterDrop, failedRead,
                   flushed,
                   warned, applied, owed>>
    /\ UNCHANGED tvars

CNext ==
    \/ \E c \in Contacts : Select(c)
    \/ \E auto \in BOOLEAN : FetchUsersResponse(auto)
    \/ \E auto \in BOOLEAN : FetchUsersError(auto)
    \/ TokenResponse
    \/ \E c \in Contacts : StaleTokenResponse(c)
    \/ WsOpen
    \/ \E f \in wsRef.listeners : ListenerTimeout(f)
    \/ \E m \in log : WsMessage(m)
    \/ \E c \in Contacts : ContactSends(c)
    \/ SendWs
    \/ SendRest
    \/ \E p \in posts : PostResponse(p)
    \/ \E p \in posts : PostError(p)
    \/ \E f \in fetches : ServerSnapshot(f)
    \/ \E f \in fetches : SnapshotResponse(f)
    \/ \E f \in fetches : SnapshotError(f)

Init == TInit /\ CInit /\ LInit

\* The session transport alone.
SpecTransport == Init /\ [][TNext]_vars

\* The chat hook, its calls answered by the server or failing; the server's
\* contact list does not change.
SpecChat == Init /\ [][CNext]_vars


\* The contact list: a server whose contact list changes and which pushes
\* sidebar and message events, conversations fetched and messages sent
\* over HTTP.
SidebarNext ==
    \/ \E c \in Contacts : Select(c)
    \/ \E auto \in BOOLEAN : FetchUsersResponse(auto)
    \/ \E d \in [Contacts -> {NoUser} \cup
                    {[listed |-> TRUE, unread |-> n] : n \in 0..MaxServerUnread}] :
          ServerDirectory(d)
    \/ TokenResponse
    \/ WsOpen
    \/ \E m \in log : WsSidebar(m)
    \/ \E m \in log : WsMessage(m)
    \/ \E c \in Contacts : ContactSends(c)
    \/ SendRest
    \/ \E p \in posts : PostResponse(p)
    \/ \E f \in fetches : ServerSnapshot(f)
    \/ \E f \in fetches : SnapshotResponse(f)

SpecSidebar == Init /\ [][SidebarNext]_vars

\* Composing: files staged and removed, messages sent on the socket and
\* over HTTP, the socket closed and reopened as the message list grows.
ComposeNext ==
    \/ \E auto \in BOOLEAN : FetchUsersResponse(auto)
    \/ TokenResponse
    \/ WsOpen
    \/ \E m \in log : WsMessage(m)
    \/ \E kind \in {"image", "pdf", "other"} : HandleFileChange(kind)
    \/ \E thumb \in {"data", "none"} : ThumbnailDone(thumb)
    \/ RemoveAttachment
    \/ SendWs
    \/ SendRest
    \/ \E p \in posts : PostResponse(p)
    \/ \E p \in posts : PostError(p)

SpecCompose == Init /\ [][ComposeNext]_vars

\* Composing while the active contact is changed from the sidebar.
SwitchNext ==
    \/ ComposeNext
    \/ \E c \in Contacts : Select(c)

SpecSwitch == Init /\ [][SwitchNext]_vars

\* The chat hook with typing events; a timer that is set fires.
TypingNext ==
    \/ CNext
    \/ \E u \in Users : WsTyping(u)
    \/ TypingTimeout

SpecTyping == Init /\ [][TypingNext]_vars /\ WF_vars(TypingTimeout)

\* The chat hook until the page unmounts; the socket that is connecting
\* then may still open.
LifecycleNext ==
    \/ CNext
    \/ Unmount

SpecLifecycle == Init /\ [][LifecycleNext]_vars

\* An open channel on which the server's frames arrive, some of them
\* malformed.
MalformedNext ==
    \/ \E auto \in BOOLEAN : FetchUsersResponse(auto)
    \/ TokenResponse
    \/ WsOpen
    \/ \E c \in Contacts : ContactSends(c)
    \/ \E m \in log : WsMessage(m)
    \/ \E u \in Users : WsTyping(u)
    \/ TypingTimeout
    \/ \E kind \in {"json", "sidebar", "message"}, senderId \in {Undefined, Me} :
          WsMalformed(kind, senderId)

SpecMalformed == Init /\ [][MalformedNext]_vars

\* Messages sent over HTTP, then edited and deleted from their menu while
\* the socket is closed and reopened.
EditNext ==
    \/ \E auto \in BOOLEAN : FetchUsersResponse(auto)
    \/ TokenResponse
    \/ WsOpen
    \/ SendRest
    \/ \E p \in posts : PostResponse(p)
    \/ \E m \in log : StartEdit(m.id)
    \/ \E t \in {"", "draft"} : SetEditingText(t)
    \/ CancelEdit
    \/ SubmitEdit
    \/ \E m \in log : DeleteMessage(m.id)

SpecEdit == Init /\ [][EditNext]_vars

\* Files staged in the composer and avatars chosen in the profile panel,
\* until the page unmounts.
PreviewNext ==
    \/ \E auto \in BOOLEAN : FetchUsersResponse(auto)
    \/ \E kind \in {"image", "pdf", "other"} : HandleFileChange(kind)
    \/ \E thumb \in {"data", "none"} : ThumbnailDone(thumb)
    \/ RemoveAttachment
    \/ SendRest
    \/ \E p \in posts : PostResponse(p)
    \/ OpenProfile
    \/ HandleAvatarChange
    \/ CancelAvatarSelection
    \/ ProfileSync
    \/ CloseProfile
    \/ Unmount

SpecPreview == Init /\ [][PreviewNext]_vars

\* A conversation is on the screen: contact c is selected, its history h has
\* been fetched and applied, the socket of the effect run that followed is
\* open, nothing is in flight.
Showing(c, h) ==
    /\ selected = c
    /\ log = h
    /\ messages = Conversation(c)
    /\ wsRef = [contact |-> c, state |-> "open", listeners |-> {}]
    /\ hs = NoContact
    /\ stale = {}
    /\ fetches = {}
    /\ posts = {}
    /\ selects = 1
    /\ dups = FALSE
    /\ discarded = FALSE
    /\ users = FullDirectory
    /\ ufetches = {}
    /\ directory = FullDirectory
    /\ typing = FALSE
    /\ typingTimeoutRef = FALSE
    /\ selectedFile = "none"
    /\ previewUrl = "none"
    /\ thumbs = 0
    /\ deliveredAcksRef = {}
    /\ seen = LastTs(messages)
    /\ reacted = {}
    /\ wrote = {}
    /\ applied = TRUE
    /\ owed = 0

\* The histories of up to MaxHist messages between the user and contact c,
\* with and without attachments.
Histories(c) ==
    UNION {
      { {[Msg(i, from[i], IF from[i] = Me THEN c ELSE Me) EXCEPT
             !.attachment = att[i]] : i \in 1..k} :
          from \in [1..k -> {Me, c}], att \in [1..k -> {"none", "file"}] }
      : k \in 1..MaxHist }

\* The histories of messages received from c, without attachments.
ReceivedHistories(c) ==
    {h \in Histories(c) : \A m \in h : m.attachment = "none" /\ m.sender = c}

\* The events that change entries of the message list in place, on an open
\* channel, in any order.
ReducerNext ==
    \/ \E u \in {Me, wsRef.contact}, m \in log : WsDelivered(u, m.id)
    \/ \E u \in {Me, wsRef.contact}, m \in log : WsRead(u, m.timestamp)
    \/ \E updated \in Updates : WsMessageUpdated(updated)
    \/ \E m \in log : WsMessageDeleted(m.id)

\* A conversation with contact 1 on screen, the transport idle.
ReducerInit == TInit /\ LInit /\ \E h \in Histories(1) : Showing(1, h)

SpecReducer == ReducerInit /\ [][ReducerNext]_vars

\* Reaction events on an open channel, in any order.
ReactionNext ==
    \E m \in log, emoji \in Emojis, u \in {Me, wsRef.contact},
       action \in {"added", "removed"} :
        WsReaction(m.id, emoji, u, action)

\* A conversation of received messages on screen, the transport idle.
ReactionInit == TInit /\ LInit /\ \E h \in ReceivedHistories(1) : Showing(1, h)

SpecReaction == ReactionInit /\ [][ReactionNext]_vars


\* Switching from a conversation on the screen to a contact that has sent
\* a message: the new conversation is fetched while the new socket is made.
ReceiptNext ==
    \/ \E c \in Contacts : Select(c)
    \/ \E auto \in BOOLEAN : FetchUsersResponse(auto)
    \/ TokenResponse
    \/ WsOpen
    \/ \E f \in wsRef.listeners : ListenerTimeout(f)
    \/ \E f \in fetches : ServerSnapshot(f)
    \/ \E f \in fetches : SnapshotResponse(f)

\* A conversation with contact 1 on screen; contact 2 has sent a message.
ReceiptInit ==
    TInit /\ LInit /\ \E h \in Histories(1) :
                         Showing(1, h \cup {Msg(MaxHist + 1, 2, Me)})

\* Responses in flight arrive and a socket that is connecting opens.
SpecReceipt ==
    /\ ReceiptInit
    /\ [][ReceiptNext]_vars
    /\ WF_vars(TokenResponse)
    /\ WF_vars(WsOpen)
    /\ WF_vars(\E f \in fetches : ServerSnapshot(f))
    /\ WF_vars(\E f \in fetches : SnapshotResponse(f))


\* ======================================================================
\* Properties of the session transport
\* ======================================================================

\* The refresh calls now in flight (sent, their response not yet handled).
RefreshInFlight == {r \in Reqs : req[r].phase \in {"refreshing", "refreshed"}}

\* The requests first sent with credential t whose 401 entered the refresh
\* protocol (a refresh credential was stored when the 401 arrived).
Fleet(t) ==
    {r \in Reqs : req[r].first = t /\ req[r].first401 \in {"started", "queued"}}

\* The refresh call of r fails in this step.
RefreshFailsFor(r) ==
    /\ req[r].phase = "refreshed"
    /\ req[r].rtok = NoTok
    /\ req'[r].phase # "refreshed"

\* C1: the requests sent with one expired credential that are answered 401
\* cause exactly one refresh call, whatever the order of the 401 responses
\* and the refresh response.
C1_ExactlyOneRefresh ==
    \A t \in Tokens : Fleet(t) # {} => refreshBy[t] = 1

\* C2: at most one refresh call is in flight, and one is in flight exactly
\* while isRefreshing is set.
C2_OneRefreshInFlight ==
    /\ Cardinality(RefreshInFlight) <= 1
    /\ isRefreshing <=> RefreshInFlight # {}

\* A refresh call is in flight and another caller's 401 arrived meanwhile.
C2_Witness ==
    /\ RefreshInFlight # {}
    /\ refreshQueue # <<>>

\* C3: the requests that hit the expiry of one credential end all succeeded
\* or all failed, the server accepting every credential a refresh issued.
C3_AllOrNothing ==
    \A t \in Tokens :
        ( /\ \A r \in Fleet(t) : req[r].phase = "done" /\ req[r].status # 500
          /\ refreshedToks \cap expired = {} )
        => \/ \A r \in Fleet(t) : req[r].out = "ok"
           \/ \A r \in Fleet(t) : req[r].out = "fail"

\* C4: no request is transmitted more than twice.
C4_AtMostOneReplay == \A r \in Reqs : req[r].sends <= 2

\* C5: when the refresh call fails, its initiator and every waiter fail
\* without being replayed, the waiter queue is emptied and both stored
\* credentials are removed.
C5_RefreshFailure ==
    [][\A r \in Reqs :
          RefreshFailsFor(r) =>
             /\ \A q \in {r} \cup Waiters :
                   /\ req'[q].phase = "done"
                   /\ req'[q].out = "fail"
                   /\ req'[q].sends = req[q].sends
             /\ refreshQueue' = <<>>
             /\ access' = NoTok
             /\ refresh' = FALSE]_vars

\* A failed refresh has rejected its initiator and a waiter.
C5_Witness ==
    \E r, q \in Reqs :
        /\ req[r].first401 = "started" /\ req[q].first401 = "queued"
        /\ req[r].phase = "done" /\ req[r].err = "refresh" /\ req[r].sends = 1
        /\ req[q].phase = "done" /\ req[q].err = "refresh" /\ req[q].sends = 1
        /\ access = NoTok /\ ~refresh

\* C6: when the refresh call fails, each caller (initiator and waiters) is
\* rejected with its own 401 error, not with the refresh call's error.
C6_OriginalError ==
    [][\A r \in Reqs :
          RefreshFailsFor(r) =>
             \A q \in {r} \cup Waiters : req'[q].err = "own"]_vars

\* C7: a waiter is replayed only in the step in which the refresh succeeds,
\* and its replay carries the credential that refresh issued, not the one
\* it was sent with before.
C7_QueuedReplay ==
    [][\A q \in Reqs :
          (req[q].phase = "queued" /\ req'[q].phase # "queued") =>
             \/ req'[q].phase = "done" /\ req'[q].out = "fail"
             \/ \E r \in Reqs :
                   /\ req[r].phase = "refreshed" /\ req[r].rtok # NoTok
                   /\ req'[r].phase # "refreshed"
                   /\ req'[q].phase = "sent"
                   /\ req'[q].auth = req[r].rtok
                   /\ req'[q].auth # req[q].auth]_vars

\* A waiter has been replayed with a credential issued by a refresh.
C7_Witness ==
    \E q \in Reqs :
        /\ req[q].first401 = "queued"
        /\ req[q].phase = "sent"
        /\ req[q].sends = 2
        /\ req[q].auth \in refreshedToks

\* ======================================================================
\* Properties of the chat hook
\* ======================================================================

NoDuplicateIds(list) ==
    \A i, j \in 1..Len(list) : list[i].id = list[j].id => i = j

OrderedByTimestamp(list) ==
    \A i, j \in 1..Len(list) : i < j => list[i].timestamp <= list[j].timestamp

\* The response of fetch f is applied in this step, f being a fetch for the
\* selected contact.
SnapshotApplied(f) ==
    /\ f.stage = "resp"
    /\ f.contact = selected
    /\ fetches' = fetches \ {f}
    /\ messages' = f.data

\* C8: a message appended by a message event after fetchConversation was
\* called and before its response is applied is still in the message list
\* once the snapshot is applied, the list ordered by timestamp.
C8_SnapshotKeepsEvents ==
    [][\A f \in fetches :
          SnapshotApplied(f) =>
             /\ f.since \subseteq Ids(messages')
             /\ OrderedByTimestamp(messages')]_vars

\* C9: the ws-token of an effect run that was cleaned up (the selection
\* changed while the request was in flight) opens no connection, and the
\* socket in wsRef is always one of the selected contact.
C9_LateTokenDiscarded ==
    /\ [](wsRef # NoWs => wsRef.contact = selected)
    /\ [][\A c \in Contacts : (c \in stale /\ c \notin stale') => wsRef' = wsRef]_vars

\* The token requested for a contact arrived after another was selected.
C9_Witness ==
    /\ discarded
    /\ selected # NoContact

\* C10: no two entries of the message list have the same id.
C10_NoDuplicateIds == NoDuplicateIds(messages)

\* A message was delivered again (event twice, or event and send response)
\* and the list holds it.
C10_Witness ==
    /\ dups
    /\ messages # <<>>

\* ======================================================================
\* Properties of the event reducer, the contact list and the compose state
\* ======================================================================

\* Entry i of the message list is the same message after the step.
SameEntry(i) ==
    /\ i <= Len(messages')
    /\ messages'[i].id = messages[i].id

\* C11: no step turns read or delivered of a message of the list from true
\* back to false, whatever event of the vocabulary is applied.
C11_ReadDeliveredMonotone ==
    [][\A i \in 1..Len(messages) :
          SameEntry(i) =>
             /\ messages[i].read => messages'[i].read
             /\ messages[i].delivered => messages'[i].delivered]_vars

\* The step applies a sidebar or message event of a message sent by contact
\* c while the handler's active contact is another one.
UnreadEvent(c) ==
    /\ wsRef.state = "open"
    /\ wsRef.contact # c
    /\ selected # c
    /\ \E m \in log :
          /\ m.sender = c
          /\ m.receiver = Me
          /\ users' = Upsert(users, m, wsRef.contact)

\* C12: a step that increases the unread count of an entry of the contact
\* list applies a sidebar or message event whose sender is that contact,
\* not the user, while that contact is not the active one.
C12_UnreadOnlyByEvents ==
    [][\A c \in Contacts :
          (users[c].listed /\ users'[c].unread > users[c].unread)
             => UnreadEvent(c)]_vars

\* The step writes a read frame on the channel of contact c.
ReadWritten(c) == \E f \in wrote' : f.type = "read" /\ f.to = c

\* C13: the step that zeroes the selected contact's unread count when its
\* conversation (not empty) has been fetched writes the read frame for it
\* on the channel, and a step that writes a read frame for the selected
\* contact leaves its unread count 0.
C13_ResetWithReceipt ==
    [][/\ \A f \in fetches :
             ( /\ SnapshotApplied(f)
               /\ f.data # <<>>
               /\ users[selected].unread > 0
               /\ users'[selected].unread = 0 )
             => ReadWritten(selected)
       /\ (selected' # NoContact /\ ReadWritten(selected'))
             => users'[selected'].unread = 0]_vars

\* The buckets of one message: count is the number of distinct users, no
\* user twice, no bucket without users, one bucket per emoji.
BucketsOk(reactions) ==
    /\ \A i \in 1..Len(reactions) :
          LET b == reactions[i] IN
          /\ b.count = Cardinality({b.users[j] : j \in 1..Len(b.users)})
          /\ \A j, k \in 1..Len(b.users) : b.users[j] = b.users[k] => j = k
          /\ Len(b.users) > 0
    /\ \A i, j \in 1..Len(reactions) :
          reactions[i].emoji = reactions[j].emoji => i = j

\* C14: after any sequence of reaction events, the buckets of every message
\* of the list satisfy the bucket invariant.
C14_BucketInvariant ==
    \A i \in 1..Len(messages) : BucketsOk(messages[i].reactions)

\* Both users are in one bucket of a message that has a bucket per emoji.
C14_Witness ==
    \E i \in 1..Len(messages) :
        /\ Len(messages[i].reactions) = Cardinality(Emojis)
        /\ \E j \in 1..Len(messages[i].reactions) :
              messages[i].reactions[j].count = 2

\* The users in the bucket of an emoji, none without a bucket.
Contributors(reactions, emoji) ==
    LET idx == FindIndex(reactions, emoji) IN
    IF idx = 0 THEN {}
    ELSE {reactions[idx].users[j] : j \in 1..Len(reactions[idx].users)}

\* bucket.count, 0 without a bucket
CountOf(reactions, emoji) ==
    LET idx == FindIndex(reactions, emoji) IN
    IF idx = 0 THEN 0 ELSE reactions[idx].count

\* C15: for every message of the list and every emoji, the users in the
\* bucket are those whose latest reaction event was "added", and the
\* bucket's count is their number.
C15_LatestEventDecides ==
    \A i \in 1..Len(messages) : \A emoji \in Emojis :
        LET latest == {u \in Users : <<messages[i].id, emoji, u>> \in reacted} IN
        /\ Contributors(messages[i].reactions, emoji) = latest
        /\ CountOf(messages[i].reactions, emoji) = Cardinality(latest)

\* Scenario B's end: one bucket of count 1 that holds the contact only,
\* and the other emoji's bucket, made first, holds the user.
C15_Witness ==
    \E i \in 1..Len(messages) :
        messages[i].reactions =
            << [emoji |-> "heart", count |-> 1, users |-> <<Me>>],
               [emoji |-> "thumb", count |-> 1, users |-> <<selected>>] >>

\* The step is a send: it writes a send frame or an HTTP send request.
SendStep == \E f \in wrote' : f.type \in {"send", "post", "multipart"}

\* C16: a send with a file staged writes one multipart request and no frame
\* on the socket, whatever the state of the socket.
C16_FileAlwaysMultipart ==
    [][(selectedFile # "none" /\ SendStep)
          => wrote' = {Frame("multipart", selected, NoContact)}]_vars

\* A file was staged and sent while the socket was open.
C16_Witness ==
    /\ wsRef.state = "open"
    /\ selectedFile # "none"
    /\ wrote = {Frame("multipart", selected, NoContact)}

\* C17: a message of the list that is deleted stays deleted, its content
\* the placeholder and its attachment empty, whatever event is applied.
C17_DeletedStaysCleared ==
    [][\A i \in 1..Len(messages) :
          (messages[i].is_deleted /\ SameEntry(i)) =>
             /\ messages'[i].is_deleted
             /\ messages'[i].content = DeletedText
             /\ messages'[i].attachment = "none"]_vars

\* C18: a contact that has an entry in the contact list keeps it.
C18_ContactNeverDeleted ==
    [][\A c \in Contacts : users[c].listed => users'[c].listed]_vars

\* C19: right after the active contact changes, no file and no preview is
\* staged.
C19_ClearedOnSwitch ==
    [][(selected # NoContact /\ selected' # selected) =>
          (selectedFile' = "none" /\ previewUrl' = "none")]_vars

\* C20: the typing indicator, once on, goes off again.
C20_TypingDecays == typing ~> ~typing

\* ======================================================================
\* Properties of the connection, of failures and of cleanup
\* ======================================================================
\* The sockets that are connecting or open.
NotClosed ==
    (IF wsRef.state \in {"connecting", "open"}
     THEN {[contact |-> wsRef.contact, state |-> wsRef.state]} ELSE {})
    \cup orphans

\* C21: after the step in which the active contact changes, and after the
\* step in which the page unmounts, no socket is connecting or open.
C21_IdleAfterSwitchOrUnmount ==
    [][((selected # NoContact /\ selected' # selected) \/ (mounted /\ ~mounted'))
          => NotClosed' = {}]_vars

\* C22: at most one socket is connecting or open, and it is one of the
\* selected contact.
C22_OneChannel ==
    /\ Cardinality(NotClosed) <= 1
    /\ \A ch \in NotClosed : ch.contact = selected

\* Contacts were switched while a token was requested, the token of the
\* cleaned-up run arrived, and the socket is open again after the message
\* list changed.
C22_Witness ==
    /\ discarded
    /\ wsRef.state = "open"
    /\ messages # <<>>

\* C23: a malformed frame leaves the socket open and in wsRef, and the
\* contact list, the message list and the typing indicator as they were.
C23_MalformedDropped ==
    [][(\E kind \in {"json", "sidebar", "message"}, senderId \in {Undefined, Me} :
            WsMalformed(kind, senderId))
          => /\ wsRef' = wsRef
             /\ wsRef'.state = "open"
             /\ UNCHANGED <<users, messages, typing, selected>>]_vars

\* A typing event was applied on the channel after a malformed frame was
\* dropped.
C23_Witness ==
    /\ afterDrop = "applied"
    /\ typing
    /\ wsRef.state = "open"

\* The handshake of the selected contact has failed: a contact is selected
\* and a credential stored, yet there is neither a socket nor a ws-token
\* request in flight.
HandshakeFailed ==
    /\ mounted
    /\ selected # NoContact
    /\ access # NoTok
    /\ hs = NoContact
    /\ wsRef.state = "null"

\* C24: after a failed handshake a ws-token is requested only by a step
\* that selects a contact.
C24_NoAutomaticRetry ==
    [][(HandshakeFailed /\ hs' # NoContact) => selects' # selects]_vars

\* C25: the step in which an edit or a delete is first attempted with the
\* socket not open (a warning is logged) writes nothing, starts no request
\* and leaves the id being edited and the draft as they were.
C25_EditKeptWhenNotOpen ==
    [][(~warned /\ warned')
          => /\ wrote' = {}
             /\ UNCHANGED <<posts, fetches, ufetches>>
             /\ UNCHANGED <<editingMessageId, editingText>>]_vars

\* C26: a conversation fetch or contact-list fetch that fails leaves the
\* message list, the contact list with its unread counts and the selection
\* as they were, and writes no read frame.
C26_FailedReadKeepsState ==
    [][((\E f \in fetches : SnapshotError(f)) \/
        (\E auto \in ufetches : FetchUsersError(auto)))
          => /\ UNCHANGED <<messages, users, selected>>
             /\ wrote' = {}]_vars

\* A fetch failed while messages were on the screen, and they still are.
C26_Witness ==
    /\ failedRead
    /\ messages # <<>>
    /\ selected # NoContact

\* C27: the object URLs made and not revoked are at most the staged
\* preview and the staged avatar on display, and none once the page is
\* unmounted.
C27_PreviewsReleased ==
    /\ urls \subseteq ({previewId, avatarPreview} \ {0})
    /\ ~mounted => urls = {}

\* C28: a read event of another user marks as read and delivered exactly
\* the user's own messages up to last_read; one of the user changes
\* nothing.
C28_ReadEvent ==
    [][\A u \in Users, lr \in 0..MaxHist :
          WsRead(u, lr)
            => /\ Len(messages') = Len(messages)
               /\ \A i \in 1..Len(messages) :
                     messages'[i] =
                        IF u # Me /\ messages[i].sender = Me
                                  /\ messages[i].timestamp <= lr
                        THEN [messages[i] EXCEPT !.read = TRUE, !.delivered = TRUE]
                        ELSE messages[i]]_vars

\* Of two messages of the user, neither edited, the read event marked the
\* first and not the later one.
C28_Witness ==
    /\ Len(messages) = 2
    /\ messages[1].sender = Me /\ messages[1].content = "text"
    /\ messages[1].read /\ messages[1].delivered
    /\ messages[2].sender = Me /\ messages[2].content = "text"
    /\ ~messages[2].read

\* C29: a delivered frame is written only for the id of a message sent to
\* the user, and only if none was written for that id before.
C29_OneDeliveredFrame ==
    [][\A f \in wrote' :
          f.type = "delivered"
            => /\ f.arg \notin ackFrames
               /\ \E m \in log : m.id = f.arg /\ m.receiver = Me]_vars

\* A message was acknowledged, and its message event arrived again on a
\* channel opened after the acknowledgement.
C29_Witness ==
    /\ dups
    /\ ackFrames # {}
    /\ wsRef.state = "open"
    /\ wrote = {}

C36_NoCredentialAfterLogout == loggedOut => access = NoTok

\* C40: while isRefreshing is false the waiter queue is empty; the waiters
\* in the queue are exactly the requests whose promise is pending on it,
\* each once; the step that ends a refresh settles every waiter, resolving
\* it into its replay or rejecting it, and leaves none pending.
C40_WaitersSettled ==
    [][/\ ~isRefreshing' => refreshQueue' = <<>>
       /\ \A r \in Reqs : req'[r].phase = "queued" <=> r \in Waiters'
       /\ \A i, j \in 1..Len(refreshQueue') :
             refreshQueue'[i] = refreshQueue'[j] => i = j
       /\ (isRefreshing /\ ~isRefreshing') =>
             \A q \in Waiters : req'[q].phase \in {"sent", "done"}]_vars

\* A refresh that failed has rejected its waiter, and the flag is cleared.
C40_Witness ==
    /\ ~isRefreshing
    /\ refreshQueue = <<>>
    /\ \E q \in Reqs :
          /\ req[q].first401 = "queued"
          /\ req[q].phase = "done"
          /\ req[q].err = "refresh"


\* ======================================================================
\* Properties of the chat hook: receipts, scoping, unread counts
\* ======================================================================

\* C31: the read frame written when a channel opens carries the timestamp
\* of the latest message of the conversation with the contact the channel
\* is bound to, never one of another contact's history.
C31_OpenReceiptOfThisContact ==
    [][WsOpen =>
          \A f \in wrote' :
             f.type = "read" =>
                /\ f.to = wsRef.contact
                /\ \E m \in log : BelongsTo(m, f.to) /\ m.timestamp = f.arg
                /\ \A m \in log : BelongsTo(m, f.to) => m.timestamp <= f.arg]_vars

\* C33: right after the active contact changes the typing indicator is
\* false: it is true only for a typing event of the contact now active.
C33_TypingOfActiveContact ==
    [][selected' # selected => ~typing']_vars

\* C35: while the active contact is unchanged and the page mounted, an open
\* channel stays open: no step closes it or requests a ws-token.
C35_OpenStaysOpen ==
    [][(wsRef.state = "open" /\ selected' = selected /\ mounted')
          => (wsRef'.state = "open" /\ hs' = NoContact)]_vars

\* C37: a preview is staged only with the file it was made from: an object
\* URL with an image, a thumbnail with a PDF.
C37_PreviewOfStagedFile ==
    previewUrl # "none" =>
       \/ selectedFile = "image" /\ previewUrl = "blob"
       \/ selectedFile = "pdf" /\ previewUrl = "data"

\* C34: once the snapshot of the active contact has been applied, every
\* entry of the message list is a message between the user and the active
\* contact.
C34_ListOfActiveContact ==
    applied => \A i \in 1..Len(messages) : BelongsTo(messages[i], selected)

\* The messages contact c has sent the user.
Incoming(c) == {m \in log : m.sender = c /\ m.receiver = Me}

\* C38: the unread count of a contact that is not active is at most the
\* number of distinct messages it has sent (the contact list the server
\* answers with counts none unread): an event received again is not counted
\* again.
C38_UnreadCountsDistinctIds ==
    \A c \in Contacts :
        c # selected => users[c].unread <= Cardinality(Incoming(c))

\* C39: once the snapshot of the active contact has been applied, its
\* unread count is 0.
C39_ActiveUnreadZero ==
    (applied /\ users[selected].listed) => users[selected].unread = 0

\* C32: once a non-empty snapshot has been applied for the active contact,
\* a read frame carrying its newest timestamp is eventually written on that
\* contact's channel, unless the handshake fails.
C32_ReceiptEventuallySent ==
    (owed # 0) ~> (owed = 0 \/ HandshakeFailed)

====
